---- MODULE Spec2Model ----
(***************************************************************************)
(* Model of ServerManager (services/serverManager.ts): the registry of     *)
(* server instances, the map of child-process handles, the monitoring      *)
(* timers, and the asynchronous start / stop / exit / error handlers.      *)
(*                                                                         *)
(* Every `await this.database.updateServer(server)` is a suspension point: *)
(* the code before it is one atomic step (JavaScript runs to completion),  *)
(* the code after it is another step, taken when the database callback     *)
(* resolves or rejects the promise.  An in-flight call is a record in      *)
(* `calls` whose pc names the line of the await it is suspended at.        *)
(* createServer and deleteServer are modelled the same way; the file       *)
(* system and the servers table are reduced to the files of each server    *)
(* directory and the set of ids that have a row.                           *)
(***************************************************************************)
EXTENDS Integers, FiniteSets, Sequences, Bags, TLC

(* ---------------------------- bounds ----------------------------------- *)
ServerIds == {"s1", "s2"}   \* ids an instance can have
MaxProcs == 2      \* child processes spawned in one run of the manager
MaxOps == 2        \* startServer/stopServer requests that reach an await
MaxDbFails == 1    \* database updates that reject in one run
MaxSteps == 3      \* install steps of a template whose step list is drawn

Handles == 1 .. MaxProcs

(* ServerStatus, types/index.ts *)
STOPPED == "stopped"
STARTING == "starting"
RUNNING == "running"
STOPPING == "stopping"
CRASHED == "crashed"
ServerStatus == {STOPPED, STARTING, RUNNING, STOPPING, CRASHED}

(* exit codes handed to the 'exit' listener: 0, non-zero, or null when the *)
(* child was terminated by a signal                                        *)
ExitCodes == {"0", "1", "null"}

VARIABLES
    servers,              \* keys of this.servers, the registry of instances
    status,               \* server.status of each registered instance
    pid,                  \* server.pid, 0 when undefined
    autoRestart,          \* server.autoRestart
    processes,            \* this.processes: handle registered per id, 0 when absent
    monitoringIntervals,  \* this.monitoringIntervals has an entry for the id
    activeIntervals,      \* setInterval timers created for the id and not cleared
    procs,                \* the ChildProcess objects and their OS processes
    nextProc,             \* next unused handle
    calls,                \* bag of startServer / stopServer calls suspended at an await
    opsLeft,              \* requests the run may still issue (budget of a run)
    restartTimers,        \* pending setTimeout(() => startServer(id), 5000)
    killTimers,           \* a 10 s force-kill timer is pending for the handle
    dbFailsLeft,          \* database rejections the run may still see
    ret,                  \* outcome of the call that returned last
    saved,                \* ids that have a row in the servers table
    files,                \* files of the server directory of each id
    serverTemplates,      \* this.serverTemplates, the catalog
    executable,           \* server.executable
    arguments,            \* the array server.arguments refers to: "own", or the
                          \* id of the template whose defaultArgs array it is
    config,               \* keys of server.config
    creates,              \* bag of createServer calls suspended at an await
    createRet,            \* outcome of the createServer call that returned last
    issued,               \* ids in use or generated by Date.now() so far
    metrics,              \* the last sampling cycle of the instance: "none",
                          \* "written" (server.memory, cpu and uptime set),
                          \* "updated" (serverMetricsUpdated emitted) or
                          \* "failed" (the failure logged)
    backups,              \* server.backups, the Backup objects pushed onto it
    unhandled,            \* a promise nobody awaits has rejected (an unhandled
                          \* rejection of the manager's process)
    users,                \* the users table: of each user isActive and role
    activeSessions,       \* AuthService.activeSessions, NoSession when absent
    authCalls,            \* AuthService calls suspended at an await
    authRet               \* outcome of the AuthService call that returned last

vars == <<servers, status, pid, autoRestart, processes, monitoringIntervals,
          activeIntervals, procs, nextProc, calls, opsLeft, restartTimers,
          killTimers, dbFailsLeft, ret, saved, files, serverTemplates,
          executable, arguments, config, creates, createRet, issued,
          metrics, backups, unhandled, users, activeSessions, authCalls,
          authRet>>

serverVars == <<servers, status, pid, autoRestart>>
monitorVars == <<monitoringIntervals, activeIntervals>>
timerVars == <<restartTimers, killTimers>>
(* what startServer, stopServer and the process listeners never write *)
authVars == <<users, activeSessions, authCalls, authRet>>
createVars == <<files, executable, arguments, config, creates, createRet, issued,
                metrics, backups, authVars>>

(* a pid persisted by an earlier run of the manager *)
StalePid == MaxProcs + 1

(* a ChildProcess object: `live` is "alive" while the child runs, "failed" *)
(* when it could not be launched, "exited" while the 'exit' listener is    *)
(* suspended at line 420 and "gone" once that listener has finished;       *)
(* `sig` is the strongest signal delivered to it by kill(), `code` the     *)
(* exit code, `errpc` the position of its 'error' listener                 *)
NoProc == [owner |-> "none", live |-> "none", sig |-> "none", code |-> "none",
           errpc |-> "none"]
Gone == [NoProc EXCEPT !.live = "gone"]

(* what the last call that returned gave its caller: "true", "false" or   *)
(* "throw"                                                                 *)
NoRet == "none"

(* rows a previous run can have left in the servers table *)
LoadedRows == {[status |-> STOPPED, pid |-> 0],
               [status |-> CRASHED, pid |-> 0],
               [status |-> RUNNING, pid |-> StalePid]}

(* ------------------------- the template catalog ------------------------ *)
(* InstallStep, types/index.ts: the step types, and for each the file or   *)
(* command its params name in the catalog                                  *)
StepTypes == {"download", "extract", "execute", "copy", "edit"}
Step(type, target) == [type |-> type, target |-> target]

TemplateIds == {"minecraft_vanilla", "counter_strike_2"}

(* loadServerTemplates, lines 78-187: of each template the fields the      *)
(* manager reads (defaultConfig is reduced to its keys)                    *)
LoadedTemplates ==
    [t \in TemplateIds |->
        IF t = "minecraft_vanilla"
        THEN [executable |-> "java",
              defaultArgs |-> <<"-Xmx2G", "-Xms1G", "-jar", "server.jar", "--nogui">>,
              defaultConfig |-> {"serverProperties", "memoryAllocation"},
              installSteps |-> <<Step("download", "server.jar"),
                                 Step("edit", "eula.txt")>>]
        ELSE [executable |-> "cs2.exe",
              defaultArgs |-> <<"-dedicated", "+map", "de_dust2">>,
              defaultConfig |-> {"serverProperties"},
              installSteps |-> <<Step("execute", "steamcmd")>>]]

(* the step lists installServer is run on when the list is drawn: every    *)
(* list of at most MaxSteps steps, one step per type                       *)
TargetOf(type) ==
    CASE type = "download" -> "server.jar"
      [] type = "extract" -> "server.zip"
      [] type = "execute" -> "steamcmd"
      [] type = "copy" -> "server.cfg"
      [] type = "edit" -> "eula.txt"
StepLists ==
    UNION {[1 .. n -> {Step(type, TargetOf(type)) : type \in StepTypes}] :
              n \in 0 .. MaxSteps}

(* what a caller of createServer can pass: a template id, in the catalog   *)
(* or not, and a partial configuration, with or without javaArgs           *)
RequestedTemplates == TemplateIds \cup {"unknown"}
UserConfigs == {{}, {"javaArgs"}}

(* an Error object: its message, and the index and step type it carries    *)
(* (-1 and "none": it carries none)                                        *)
Error(msg) == [message |-> msg, index |-> 0 - 1, stepType |-> "none"]
NoError == Error("none")

(* outcome of a createServer call: res is "server" or "throw", t the       *)
(* template id it was given, s the id it generated, stage the line it      *)
(* threw from, error what it threw and ran the install steps it executed   *)
(* (index, type, whether the step's action could succeed, and what         *)
(* executeInstallStep reported)                                            *)
NoCreateRet == [res |-> "none", t |-> "none", s |-> "none", stage |-> "none",
                error |-> NoError, ran |-> <<>>]

(* ------------------------- AuthService state --------------------------- *)
(* the users of the users table (a user is named by its id) and UserRole   *)
UserIds == {"admin", "u1"}
UserRoles == {"admin", "moderator", "user"}

(* activeSessions.get(userId) is undefined *)
NoSession == [role |-> "none", isAuthenticated |-> FALSE]
NoAuthRet == [op |-> "none", u |-> "none", res |-> "none"]

(* after the constructor (line 16: no session) with the users created      *)
(* earlier by createUser (line 48: isActive is true)                       *)
InitAuth ==
    /\ users = [u \in UserIds |->
                  [isActive |-> TRUE,
                   role |-> IF u = "admin" THEN "admin" ELSE "moderator"]]
    /\ activeSessions = [u \in UserIds |-> NoSession]
    /\ authCalls = EmptyBag
    /\ authRet = NoAuthRet

(* state after initialize() has loaded the instances `loaded` from the     *)
(* database (loadServers, lines 192-202): no process, no timer; an id that *)
(* is not registered has status "none"                                     *)
InitLoaded(loaded) ==
    /\ servers = loaded
    /\ \E rows \in [loaded -> LoadedRows] :
          /\ status = [s \in ServerIds |->
                         IF s \in loaded THEN rows[s].status ELSE "none"]
          /\ pid = [s \in ServerIds |->
                      IF s \in loaded THEN rows[s].pid ELSE 0]
    /\ \E ar \in [loaded -> BOOLEAN] :
          autoRestart = [s \in ServerIds |-> s \in loaded /\ ar[s]]
    /\ processes = [s \in ServerIds |-> 0]
    /\ monitoringIntervals = [s \in ServerIds |-> FALSE]
    /\ activeIntervals = [s \in ServerIds |-> 0]
    /\ procs = [h \in Handles |-> NoProc]
    /\ nextProc = 1
    /\ calls = EmptyBag
    /\ restartTimers = [s \in ServerIds |-> 0]
    /\ killTimers = [h \in Handles |-> FALSE]
    /\ ret = NoRet
    /\ saved = loaded
    /\ files = [s \in ServerIds |->
                  IF s \in loaded THEN {"dir", "eula.txt", "server.properties"}
                  ELSE {}]
    /\ executable = [s \in ServerIds |-> IF s \in loaded THEN "java" ELSE "none"]
    /\ arguments = [s \in ServerIds |-> IF s \in loaded THEN "own" ELSE "none"]
    /\ config = [s \in ServerIds |->
                   IF s \in loaded
                   THEN LoadedTemplates["minecraft_vanilla"].defaultConfig
                   ELSE {}]
    /\ creates = EmptyBag
    /\ createRet = NoCreateRet
    /\ issued = loaded
    /\ metrics = [s \in ServerIds |-> "none"]
    /\ backups = [s \in ServerIds |-> <<>>]
    /\ unhandled = FALSE
    /\ InitAuth

(* the budgets of a run: requests it may issue, database rejections it    *)
(* may see                                                                 *)
Budget(nOps, nFails) == opsLeft = nOps /\ dbFailsLeft = nFails

(* loadServerTemplates has filled the catalog *)
Init ==
    /\ InitLoaded({"s1"})
    /\ serverTemplates = LoadedTemplates
    /\ Budget(MaxOps, MaxDbFails)

(* ------------------------- helpers ------------------------------------- *)
(* a suspended call: k is "start" or "stop", s the id, pc the line of the  *)
(* await, h the handle a stop call read from this.processes (0: none),     *)
(* force its flag, origin "api" for a caller's request and "timer" for the *)
(* restart timer; fromStopped marks a start call that found the instance   *)
(* Stopped and has not reached the spawn yet                               *)
InFlight == BagToSet(calls)
Suspend(c) == calls (+) SetToBag({c})
Resume(c) == calls (-) SetToBag({c})
Move(c, d) == (calls (-) SetToBag({c})) (+) SetToBag({d})

(* start calls that have not reached the spawn yet *)
StartsBeforeSpawn ==
    LET S == {c \in InFlight : c.k = "start" /\ c.pc = "L320"}
        Sum[T \in SUBSET S] ==
            IF T = {} THEN 0
            ELSE LET c == CHOOSE x \in T : TRUE IN calls[c] + Sum[T \ {c}]
    IN Sum[S]

(* the database callback resolves, or rejects while the budget lasts *)
DbOutcomes == IF dbFailsLeft > 0 THEN {"ok", "reject"} ELSE {"ok"}
DbCount(o) == IF o = "reject" THEN dbFailsLeft - 1 ELSE dbFailsLeft

(* updateServer and saveServer are INSERT OR REPLACE (lines 1227-1281):    *)
(* when the statement succeeds the id has a row, whether it had one or not *)
DbWrite(o, s) == IF o = "ok" THEN saved \cup {s} ELSE saved

(* a file-system call (mkdir, writeFile, copyFile, rm) or an external      *)
(* command succeeds or fails                                               *)
FsOutcomes == {"ok", "fail"}

(* a call rejects: the route that made an "api" call catches the rejection; *)
(* the promise of a call made by a timer (line 426) or by the signal       *)
(* handlers (lines 65-66) is awaited by nobody and has no catch, so its     *)
(* rejection is an unhandled rejection                                     *)
Rejects(origin) == unhandled' = (unhandled \/ origin \in {"timer", "cleanup"})


(* ChildProcess.kill(signal): the signal is delivered to a live child;     *)
(* nothing happens once the child is gone                                  *)
Kill(p, sg) ==
    IF p.live = "alive"
    THEN [p EXCEPT !.sig = IF sg = "SIGKILL" THEN "SIGKILL"
                           ELSE IF @ = "SIGKILL" THEN "SIGKILL" ELSE "SIGTERM"]
    ELSE p

(* ChildProcess.killed: true once kill() has delivered a signal, whether   *)
(* or not the child has ended                                              *)
killed(p) == p.sig # "none"

(* startServerMonitoring: a new interval is created and stored under the   *)
(* id; an interval already stored there is overwritten, not cleared        *)
startServerMonitoring(s) ==
    /\ activeIntervals' = [activeIntervals EXCEPT ![s] = @ + 1]
    /\ monitoringIntervals' = [monitoringIntervals EXCEPT ![s] = TRUE]

(* a stop that clears the interval of every id *)
stopServerMonitoring_All(s) ==
    /\ activeIntervals' = [o \in ServerIds |-> 0]
    /\ monitoringIntervals' = [o \in ServerIds |-> FALSE]

(* stopServerMonitoring: clears and removes the interval stored under the id *)
stopServerMonitoring(s) ==
    IF monitoringIntervals[s]
    THEN /\ activeIntervals' = [activeIntervals EXCEPT ![s] = @ - 1]
         /\ monitoringIntervals' = [monitoringIntervals EXCEPT ![s] = FALSE]
    ELSE UNCHANGED monitorVars

(* ------------------------- startServer --------------------------------- *)
(* line 312: the only status that makes startServer return early *)
StartRejects(st) == st = RUNNING

(* lines 306-320: lookup, early return, status = STARTING, first await.    *)
(* Constrains status, calls and ret only; the callers say the rest.        *)
startServerEntry(s, origin) ==
    IF StartRejects(status[s])
    THEN /\ ret' = IF origin = "api" THEN "false" ELSE ret
         /\ UNCHANGED <<status, calls>>
    ELSE /\ nextProc + StartsBeforeSpawn <= MaxProcs
         /\ status' = [status EXCEPT ![s] = STARTING]
         /\ calls' = Suspend([k |-> "start", s |-> s, pc |-> "L320", h |-> 0,
                              force |-> FALSE, origin |-> origin,
                              fromStopped |-> status[s] = STOPPED])
         /\ UNCHANGED ret

(* a caller (POST /servers/:id/start) invokes startServer *)
StartServer(s) ==
    /\ startServerEntry(s, "api")
    /\ IF StartRejects(status[s]) THEN UNCHANGED opsLeft
       ELSE opsLeft > 0 /\ opsLeft' = opsLeft - 1
    /\ UNCHANGED <<servers, pid, autoRestart, processes, monitorVars, procs, nextProc,
                   timerVars, dbFailsLeft, saved, serverTemplates, createVars, unhandled>>

(* the command line built without the copy of line 323: the java arguments *)
(* are put in front of the array server.arguments refers to                *)
ArgumentsAfterBuild_NoCopy(arr, withJava) ==
    IF withJava THEN <<"javaArgs">> \o arr ELSE arr

(* lines 323-326: `args` is a copy of server.arguments and the java        *)
(* arguments are put in front of the copy; the operator gives what the     *)
(* array server.arguments refers to holds afterwards                       *)
ArgumentsAfterBuild(arr, withJava) == arr

(* lines 323-326 for an instance made by createServer in this run: its     *)
(* server.arguments is the defaultArgs array of its template (line 227)    *)
BuildArgs(s) ==
    serverTemplates' =
        IF arguments[s] \in DOMAIN serverTemplates
        THEN [serverTemplates EXCEPT ![arguments[s]].defaultArgs =
                 ArgumentsAfterBuild(@, "javaArgs" \in config[s]
                                        /\ executable[s] = "java")]
        ELSE serverTemplates

(* lines 352-354: the catch block sets STOPPED and awaits the update *)
StartCatch(c) ==
    /\ status' = [status EXCEPT ![c.s] = STOPPED]
    /\ calls' = Move(c, [c EXCEPT !.pc = "L354", !.fromStopped = FALSE])
    /\ UNCHANGED <<pid, processes, monitorVars, procs, nextProc>>

(* lines 329-346 when spawn returns a child: the handle is registered,     *)
(* pid, status = RUNNING, the handlers and the monitoring are set up.      *)
(* With alive = FALSE the executable could not be launched: the child has  *)
(* no pid, and its 'error' event is emitted on the next tick, before any   *)
(* other callback runs, so the listener's first part (lines 430-433:       *)
(* status = CRASHED, await) belongs to the same step.                      *)
StartSpawned(c, alive) ==
    LET h == nextProc
        s == c.s IN
    /\ procs' = [procs EXCEPT ![h] =
                    [NoProc EXCEPT !.owner = s,
                                   !.live = IF alive THEN "alive" ELSE "failed",
                                   !.errpc = IF alive THEN "none" ELSE "L433"]]
    /\ nextProc' = nextProc + 1
    /\ processes' = [processes EXCEPT ![s] = h]
    /\ pid' = [pid EXCEPT ![s] = IF alive THEN h ELSE 0]
    /\ status' = [status EXCEPT ![s] = IF alive THEN RUNNING ELSE CRASHED]
    /\ startServerMonitoring(s)
    /\ calls' = Move(c, [c EXCEPT !.pc = "L346", !.fromStopped = FALSE])

(* resumption after the await of line 320.  The spawn call of line 329      *)
(* either throws synchronously (its options read `process.env` inside the  *)
(* declaration of the block's own `const process`, and spawn itself throws *)
(* on invalid arguments), or returns a child that runs, or returns a child *)
(* that could not be launched.                                             *)
StartAfterUpdate(c) ==
    /\ c \in InFlight /\ c.k = "start" /\ c.pc = "L320"
    /\ \E o \in DbOutcomes :
          /\ dbFailsLeft' = DbCount(o)
          /\ saved' = DbWrite(o, c.s)
          /\ IF o = "reject"
             THEN StartCatch(c) /\ UNCHANGED serverTemplates
             ELSE /\ BuildArgs(c.s)
                  /\ \/ StartCatch(c)
                     \/ StartSpawned(c, TRUE)
                     \/ StartSpawned(c, FALSE)
    /\ UNCHANGED <<opsLeft, servers, autoRestart, timerVars, ret, createVars, unhandled>>

(* resumption after the await of line 346: return true, or the catch block *)
StartAfterSave(c) ==
    /\ c \in InFlight /\ c.k = "start" /\ c.pc = "L346"
    /\ \E o \in DbOutcomes :
          /\ dbFailsLeft' = DbCount(o)
          /\ saved' = DbWrite(o, c.s)
          /\ IF o = "reject"
             THEN /\ StartCatch(c)
                  /\ UNCHANGED ret
             ELSE /\ calls' = Resume(c)
                  /\ ret' = IF c.origin = "api" THEN "true" ELSE ret
                  /\ UNCHANGED <<status, pid, processes, monitorVars, procs,
                                 nextProc>>
    /\ UNCHANGED <<opsLeft, servers, autoRestart, timerVars, serverTemplates,
                   createVars, unhandled>>

(* resumption after the await of line 354: the error is rethrown (a        *)
(* rejected update throws as well)                                         *)
StartCatchDone(c) ==
    /\ c \in InFlight /\ c.k = "start" /\ c.pc = "L354"
    /\ \E o \in DbOutcomes :
          /\ dbFailsLeft' = DbCount(o)
          /\ saved' = DbWrite(o, c.s)
    /\ calls' = Resume(c)
    /\ ret' = IF c.origin = "api" THEN "throw" ELSE ret
    /\ Rejects(c.origin)
    /\ UNCHANGED <<opsLeft, serverVars, processes, monitorVars, procs, nextProc,
                   timerVars, serverTemplates, createVars>>

(* ------------------------- stopServer ---------------------------------- *)
(* a deleteServer call suspended at the await of fs.rm (line 574) or of    *)
(* database.deleteServer (line 578)                                        *)
DeleteCall(s, deleteFiles) ==
    [k |-> "delete", s |-> s, pc |-> IF deleteFiles THEN "L574" ELSE "L578",
     h |-> 0, force |-> FALSE, origin |-> "api", fromStopped |-> FALSE]

(* a stopServer call suspended at its first await: line 372 without a      *)
(* registered handle, line 379 with one.  origin is "api" for a caller's   *)
(* request, "delete" or "deleteRm" (deleteFiles = true) for the call made  *)
(* by deleteServer and "cleanup" for the call made by cleanup.             *)
StopCall(s, force, origin) ==
    LET h == processes[s] IN
    [k |-> "stop", s |-> s, pc |-> IF h = 0 THEN "L372" ELSE "L379",
     h |-> h, force |-> h # 0 /\ force, origin |-> origin,
     fromStopped |-> FALSE]

(* lines 363-379: without a registered handle status = STOPPED, otherwise  *)
(* status = STOPPING; then the update is awaited.  Constrains status and   *)
(* calls only.                                                             *)
stopServerEntry(s, force, origin) ==
    /\ status' = [status EXCEPT ![s] = IF processes[s] = 0 THEN STOPPED
                                        ELSE STOPPING]
    /\ calls' = Suspend(StopCall(s, force, origin))

(* a caller (POST /servers/:id/stop) invokes stopServer *)
StopServer(s, force) ==
    /\ opsLeft > 0
    /\ opsLeft' = opsLeft - 1
    /\ stopServerEntry(s, force, "api")
    /\ UNCHANGED <<servers, pid, autoRestart, processes, monitorVars, procs,
                   nextProc, timerVars, dbFailsLeft, ret, saved, serverTemplates,
                   createVars, unhandled>>

(* the order in which `for (const [serverId] of this.servers)` visits the  *)
(* registry: a Map is visited in insertion order, which is the order of    *)
(* the ids here; the iterator sees the Map as it is when it moves on       *)
ServerOrder == <<"s1", "s2">>
Position(s) == CHOOSE k \in 1 .. Len(ServerOrder) : ServerOrder[k] = s

(* lines 661-665, the loop of cleanup from the id after position k: the    *)
(* next registered id that has a handle is stopped with force and the call *)
(* is awaited; when there is none cleanup returns.  `base` is the bag of   *)
(* the other suspended calls.  Constrains status, calls and ret.           *)
cleanupLoop(base, k) ==
    LET S == {s \in servers : Position(s) > k /\ processes[s] # 0} IN
    IF S = {}
    THEN /\ calls' = base
         /\ ret' = "cleaned"
         /\ UNCHANGED status
    ELSE LET s == CHOOSE x \in S : \A o \in S : Position(x) <= Position(o) IN
         /\ status' = [status EXCEPT ![s] = STOPPING]
         /\ calls' = base (+) SetToBag({StopCall(s, TRUE, "cleanup")})
         /\ UNCHANGED ret

(* stopServer returns true or throws.  Its caller is the route, or         *)
(* deleteServer at line 569: after a return deleteServer goes on to its    *)
(* next await, a throw ends it; or cleanup at line 663, which goes on with *)
(* its loop after a return and rejects on a throw.  Constrains status,     *)
(* calls, ret and unhandled.                                               *)
stopServerReturns(c, outcome) ==
    IF c.origin = "cleanup"
    THEN IF outcome = "true"
         THEN cleanupLoop(Resume(c), Position(c.s)) /\ UNCHANGED unhandled
         ELSE /\ calls' = Resume(c)
              /\ ret' = "throw"
              /\ Rejects(c.origin)
              /\ UNCHANGED status
    ELSE /\ UNCHANGED <<status, unhandled>>
         /\ IF c.origin \in {"delete", "deleteRm"}
            THEN IF outcome = "true"
                 THEN /\ calls' = Move(c, DeleteCall(c.s, c.origin = "deleteRm"))
                      /\ UNCHANGED ret
                 ELSE /\ calls' = Resume(c)
                      /\ ret' = "throw"
            ELSE /\ calls' = Resume(c)
                 /\ ret' = outcome

(* resumption after the await of line 372: return true, or the rejection   *)
(* propagates to the caller                                                *)
StopNoProcessDone(c) ==
    /\ c \in InFlight /\ c.k = "stop" /\ c.pc = "L372"
    /\ \E o \in DbOutcomes :
          /\ dbFailsLeft' = DbCount(o)
          /\ saved' = DbWrite(o, c.s)
          /\ stopServerReturns(c, IF o = "ok" THEN "true" ELSE "throw")
    /\ UNCHANGED <<opsLeft, servers, pid, autoRestart, processes, monitorVars,
                   procs, nextProc, timerVars, serverTemplates, createVars>>

(* line 389: the force-kill timer acts only when `killed` is still false *)
TimerShouldKill(p) == ~killed(p)

(* resumption after the await of line 379: SIGKILL when forced, otherwise  *)
(* SIGTERM and a 10 s timer; a rejected update is rethrown                 *)
StopSignal(c) ==
    /\ c \in InFlight /\ c.k = "stop" /\ c.pc = "L379"
    /\ \E o \in DbOutcomes :
          /\ dbFailsLeft' = DbCount(o)
          /\ saved' = DbWrite(o, c.s)
          /\ IF o = "reject"
             THEN /\ stopServerReturns(c, "throw")
                  /\ UNCHANGED <<procs, killTimers>>
             ELSE /\ stopServerReturns(c, "true")
                  /\ procs' = [procs EXCEPT ![c.h] =
                        Kill(@, IF c.force THEN "SIGKILL" ELSE "SIGTERM")]
                  /\ killTimers' = IF c.force THEN killTimers
                                   ELSE [killTimers EXCEPT ![c.h] = TRUE]
    /\ UNCHANGED <<opsLeft, servers, pid, autoRestart, processes, monitorVars,
                   nextProc, restartTimers, serverTemplates, createVars>>

(* lines 388-393: the 10 s timer fires.  Once a timer of a handle has      *)
(* fired, `killed` is true or the child is gone, so a further timer of the *)
(* same handle changes nothing: one pending flag per handle is enough.     *)
KillTimerFires(h) ==
    /\ killTimers[h]
    /\ killTimers' = [killTimers EXCEPT ![h] = FALSE]
    /\ procs' = [procs EXCEPT ![h] =
                    IF TimerShouldKill(@) THEN Kill(@, "SIGKILL") ELSE @]
    /\ UNCHANGED <<opsLeft, serverVars, processes, monitorVars, nextProc, calls,
                   restartTimers, dbFailsLeft, ret, saved, serverTemplates,
                   createVars, unhandled>>

(* ------------------------- the child process --------------------------- *)
(* line 417 *)
ExitStatus(code) == IF code = "0" THEN STOPPED ELSE CRASHED

(* the restart condition without its autoRestart test *)
ShouldAutoRestart_IgnoresFlag(ar, code) == code # "0"

(* line 424 *)
ShouldAutoRestart(ar, code) == ar /\ code # "0"

(* the child ends (by itself with code 0 or 1, or by a signal: code null;  *)
(* a child may also survive SIGTERM for ever) and its 'exit' listener runs *)
(* up to its await, lines 411-420                                          *)
ProcessExit(h, code) ==
    LET s == procs[h].owner IN
    /\ procs[h].live = "alive"
    /\ procs[h].sig = "SIGKILL" => code = "null"
    /\ processes' = [processes EXCEPT ![s] = 0]
    /\ stopServerMonitoring(s)
    /\ status' = [status EXCEPT ![s] = ExitStatus(code)]
    /\ pid' = [pid EXCEPT ![s] = 0]
    /\ procs' = [procs EXCEPT ![h].live = "exited", ![h].code = code]
    /\ UNCHANGED <<opsLeft, servers, autoRestart, nextProc, calls, timerVars,
                   dbFailsLeft, ret, saved, serverTemplates, createVars, unhandled>>

(* lines 420-427: after the await the restart timer is set; a rejected     *)
(* update ends the listener with an unhandled rejection                    *)
ExitAfterUpdate(h) ==
    LET s == procs[h].owner IN
    /\ procs[h].live = "exited"
    /\ procs' = [procs EXCEPT ![h] = Gone]
    /\ \E o \in DbOutcomes :
          /\ dbFailsLeft' = DbCount(o)
          /\ saved' = DbWrite(o, s)
          /\ unhandled' = (unhandled \/ o = "reject")
          /\ IF o = "reject"
             THEN UNCHANGED restartTimers
             ELSE restartTimers' =
                     IF ShouldAutoRestart(autoRestart[s], procs[h].code)
                     THEN [restartTimers EXCEPT ![s] = @ + 1]
                     ELSE restartTimers
    /\ UNCHANGED <<opsLeft, serverVars, processes, monitorVars, nextProc, calls,
                   killTimers, ret, serverTemplates, createVars>>

(* lines 433-434: the 'error' listener after its await *)
ErrorAfterUpdate(h) ==
    /\ procs[h].errpc = "L433"
    /\ \E o \in DbOutcomes :
          /\ dbFailsLeft' = DbCount(o)
          /\ saved' = DbWrite(o, procs[h].owner)
          /\ unhandled' = (unhandled \/ o = "reject")
          /\ procs' = [procs EXCEPT ![h].errpc =
                          IF o = "ok" THEN "done" ELSE "rejected"]
    /\ UNCHANGED <<opsLeft, serverVars, processes, monitorVars, nextProc, calls,
                   timerVars, ret, serverTemplates, createVars>>

(* line 426: the 5 s restart timer fires and calls startServer, which      *)
(* throws at line 309 when the id is no longer registered                  *)
RestartTimerFires(s) ==
    /\ restartTimers[s] > 0
    /\ restartTimers' = [restartTimers EXCEPT ![s] = @ - 1]
    /\ IF s \in servers THEN startServerEntry(s, "timer") /\ UNCHANGED unhandled
       ELSE UNCHANGED <<status, calls, ret>> /\ Rejects("timer")
    /\ UNCHANGED <<opsLeft, servers, pid, autoRestart, processes, monitorVars, procs,
                   nextProc, killTimers, dbFailsLeft, saved, serverTemplates,
                   createVars>>

(* ------------------------- cleanup ------------------------------------- *)
(* SIGINT or SIGTERM arrives and the handler of line 65 or 66 calls         *)
(* cleanup, lines 652-665: first stopServerMonitoring for every id of      *)
(* monitoringIntervals, then the loop over the registry up to its first    *)
(* await                                                                   *)
Cleanup ==
    /\ opsLeft > 0
    /\ opsLeft' = opsLeft - 1
    /\ monitoringIntervals' = [s \in ServerIds |-> FALSE]
    /\ activeIntervals' = [s \in ServerIds |->
                              IF monitoringIntervals[s] THEN activeIntervals[s] - 1
                              ELSE activeIntervals[s]]
    /\ cleanupLoop(calls, 0)
    /\ UNCHANGED <<servers, pid, autoRestart, processes, procs, nextProc, timerVars,
                   dbFailsLeft, saved, serverTemplates, createVars, unhandled>>

(* ------------------------- deleteServer -------------------------------- *)
(* lines 561-569: lookup; the server is stopped, with force, only when its *)
(* status is RUNNING; otherwise the call goes straight to fs.rm (when      *)
(* deleteFiles) or to database.deleteServer                                *)
DeleteServer(s, deleteFiles) ==
    /\ opsLeft > 0
    /\ opsLeft' = opsLeft - 1
    /\ IF status[s] = RUNNING
       THEN stopServerEntry(s, TRUE, IF deleteFiles THEN "deleteRm" ELSE "delete")
       ELSE /\ calls' = Suspend(DeleteCall(s, deleteFiles))
            /\ UNCHANGED status
    /\ UNCHANGED <<servers, pid, autoRestart, processes, monitorVars, procs,
                   nextProc, timerVars, dbFailsLeft, ret, saved, serverTemplates,
                   createVars, unhandled>>

(* resumption after the await of line 574: the directory is removed, or    *)
(* fs.rm rejects and deleteServer throws                                   *)
DeleteFilesDone(c) ==
    /\ c \in InFlight /\ c.k = "delete" /\ c.pc = "L574"
    /\ \E o \in FsOutcomes :
          IF o = "ok"
          THEN /\ files' = [files EXCEPT ![c.s] = {}]
               /\ calls' = Move(c, DeleteCall(c.s, FALSE))
               /\ UNCHANGED ret
          ELSE /\ calls' = Resume(c)
               /\ ret' = "throw"
               /\ UNCHANGED files
    /\ UNCHANGED <<opsLeft, serverVars, processes, monitorVars, procs, nextProc,
                   timerVars, dbFailsLeft, saved, serverTemplates, executable,
                   arguments, config, creates, createRet, issued, metrics,
                   backups, authVars, unhandled>>

(* resumption after the await of line 578: the row is deleted and the id   *)
(* is removed from this.servers (line 579); a rejection is thrown before   *)
(* line 579.  The Server object stays referenced by the listeners and the  *)
(* suspended calls of the instance, so its fields are kept.                *)
DeleteDone(c) ==
    /\ c \in InFlight /\ c.k = "delete" /\ c.pc = "L578"
    /\ \E o \in DbOutcomes :
          /\ dbFailsLeft' = DbCount(o)
          /\ IF o = "ok"
             THEN /\ saved' = saved \ {c.s}
                  /\ servers' = servers \ {c.s}
                  /\ ret' = "void"
             ELSE /\ ret' = "throw"
                  /\ UNCHANGED <<saved, servers>>
    /\ calls' = Resume(c)
    /\ UNCHANGED <<opsLeft, status, pid, autoRestart, processes, monitorVars, procs,
                   nextProc, timerVars, serverTemplates, createVars, unhandled>>

(* ------------------------- createServer -------------------------------- *)
(* what createServer never writes *)
processVars == <<processes, monitoringIntervals, activeIntervals, procs, nextProc,
                 calls, restartTimers, killTimers, ret, unhandled, authVars>>

(* a suspended createServer call: t the template id, s the generated id,   *)
(* cfg the keys of the caller's configuration, pc the line of the await,   *)
(* i the zero-based index of the install step it awaits and ran the steps  *)
(* executed so far                                                         *)
Creating == BagToSet(creates)
CreateMove(c, d) == (creates (-) SetToBag({c})) (+) SetToBag({d})
CreateEnd(c) == creates (-) SetToBag({c})

(* the lookup without its test *)
TemplateKnown_NoCheck(t) == TRUE

(* lines 208-209: this.serverTemplates.get(templateId) is defined *)
TemplateKnown(t) == t \in DOMAIN serverTemplates

(* line 213, `server_${Date.now()}`: an id not used before, or the id of a *)
(* createServer call that was entered in the same millisecond (taken to be *)
(* a call still at its first await)                                        *)
GeneratedIds ==
    (ServerIds \ issued) \cup {c.s : c \in {d \in Creating : d.pc = "L217"}}

(* the call rejects with the error of its await: no code between the await *)
(* and the caller of createServer catches or wraps it                      *)
createThrows(c, stage, msg, ran) ==
    createRet' = [res |-> "throw", t |-> c.t, s |-> c.s, stage |-> stage,
                  error |-> Error(msg), ran |-> ran]

(* lines 207-217: lookup, or throw; id; mkdir is awaited *)
CreateServer(t, cfg) ==
    /\ IF ~TemplateKnown(t)
       THEN /\ createRet' = [NoCreateRet EXCEPT !.res = "throw", !.t = t,
                                                !.stage = "L210",
                                                !.error = Error("Template not found")]
            /\ UNCHANGED <<opsLeft, creates, issued>>
       ELSE /\ opsLeft > 0
            /\ opsLeft' = opsLeft - 1
            /\ \E s \in GeneratedIds :
                  /\ issued' = issued \cup {s}
                  /\ creates' = creates (+) SetToBag({[t |-> t, s |-> s, cfg |-> cfg,
                                                       pc |-> "L217", i |-> 0,
                                                       ran |-> <<>>]})
            /\ UNCHANGED createRet
    /\ UNCHANGED <<serverVars, processVars, dbFailsLeft, saved, files,
                   serverTemplates, executable, arguments, config, metrics,
                   backups>>

(* line 233: { ...template.defaultConfig, ...config } *)
ServerConfig(c) == serverTemplates[c.t].defaultConfig \cup c.cfg

(* lines 258-263 and 243-244: the loop awaits step j; after the last step  *)
(* generateConfigFiles awaits its writeFile (line 299) when the            *)
(* configuration has serverProperties, and otherwise createServer awaits   *)
(* saveServer (line 244)                                                   *)
InstallFrom(c, j, ran) ==
    [c EXCEPT !.ran = ran,
              !.i = j,
              !.pc = IF j < Len(serverTemplates[c.t].installSteps) THEN "L259"
                     ELSE IF "serverProperties" \in ServerConfig(c) THEN "L299"
                     ELSE "L244"]

(* resumption after the await of line 217; lines 219-241 build the Server  *)
(* object from the template and enter installServer                        *)
MkdirDone(c) ==
    /\ c \in Creating /\ c.pc = "L217"
    /\ \E o \in FsOutcomes :
          IF o = "fail"
          THEN /\ createThrows(c, "L217", "mkdir failed", c.ran)
               /\ creates' = CreateEnd(c)
               /\ UNCHANGED files
          ELSE /\ files' = [files EXCEPT ![c.s] = @ \cup {"dir"}]
               /\ IF c.t \in DOMAIN serverTemplates
                  THEN /\ creates' = CreateMove(c, InstallFrom(c, 0, c.ran))
                       /\ UNCHANGED createRet
                  ELSE /\ createThrows(c, "L219", "TypeError", c.ran)
                       /\ creates' = CreateEnd(c)
    /\ UNCHANGED <<opsLeft, serverVars, processVars, dbFailsLeft, saved,
                   serverTemplates, executable, arguments, config, issued,
                   metrics, backups>>

(* executeInstallStep, lines 271-289, and downloadFile, lines 615-618:     *)
(* what the step reports, given whether its action (the download, the      *)
(* extraction, the command, the copy, the write) can succeed.  download    *)
(* only logs and extract is an empty case: both always report success.     *)
StepResult(type, action) ==
    IF type \in {"download", "extract"} THEN "ok" ELSE action

(* the files the step leaves in the server directory *)
StepWrites(step, action) ==
    IF step.type \in {"execute", "copy", "edit"} /\ action = "ok"
    THEN {step.target} ELSE {}

(* a loop that goes on after a failed step *)
AbortsInstall_Swallowed(result) == FALSE

(* lines 258-260: the await of a rejected step throws out of the loop, of  *)
(* installServer and of createServer                                       *)
AbortsInstall(result) == result = "fail"

(* resumption after the await of line 259 *)
InstallStepDone(c) ==
    /\ c \in Creating /\ c.pc = "L259"
    /\ \E action \in FsOutcomes :
          LET step == serverTemplates[c.t].installSteps[c.i + 1]
              result == StepResult(step.type, action)
              ran == Append(c.ran, [index |-> c.i, type |-> step.type,
                                    action |-> action, result |-> result])
          IN IF AbortsInstall(result)
             THEN /\ createThrows(c, "L259", "cause", ran)
                  /\ creates' = CreateEnd(c)
                  /\ UNCHANGED files
             ELSE /\ files' = [files EXCEPT ![c.s] = @ \cup StepWrites(step, action)]
                  /\ creates' = CreateMove(c, InstallFrom(c, c.i + 1, ran))
                  /\ UNCHANGED createRet
    /\ UNCHANGED <<opsLeft, serverVars, processVars, dbFailsLeft, saved,
                   serverTemplates, executable, arguments, config, issued,
                   metrics, backups>>

(* resumption after the await of line 299 (generateConfigFiles) *)
ConfigDone(c) ==
    /\ c \in Creating /\ c.pc = "L299"
    /\ \E o \in FsOutcomes :
          IF o = "fail"
          THEN /\ createThrows(c, "L299", "write failed", c.ran)
               /\ creates' = CreateEnd(c)
               /\ UNCHANGED files
          ELSE /\ files' = [files EXCEPT ![c.s] = @ \cup {"server.properties"}]
               /\ creates' = CreateMove(c, [c EXCEPT !.pc = "L244"])
               /\ UNCHANGED createRet
    /\ UNCHANGED <<opsLeft, serverVars, processVars, dbFailsLeft, saved,
                   serverTemplates, executable, arguments, config, issued,
                   metrics, backups>>

(* a registry entry made before the row is written *)
Registered_BeforeSave(o, s) == servers \cup {s}

(* lines 244-246: this.servers.set comes after the awaited saveServer, so  *)
(* a rejected save leaves the registry as it was                           *)
Registered(o, s) == IF o = "reject" THEN servers ELSE servers \cup {s}

(* resumption after the await of line 244: the row is written and the new  *)
(* Server object is put into this.servers (line 246), or saveServer        *)
(* rejects and createServer throws                                         *)
SaveDone(c) ==
    /\ c \in Creating /\ c.pc = "L244"
    /\ \E o \in DbOutcomes :
          /\ dbFailsLeft' = DbCount(o)
          /\ saved' = DbWrite(o, c.s)
          /\ servers' = Registered(o, c.s)
          /\ IF o = "reject"
             THEN /\ createThrows(c, "L244", "database error", c.ran)
                  /\ UNCHANGED <<status, pid, autoRestart, executable,
                                 arguments, config, metrics, backups>>
             ELSE /\ status' = [status EXCEPT ![c.s] = STOPPED]
                  /\ pid' = [pid EXCEPT ![c.s] = 0]
                  /\ autoRestart' = [autoRestart EXCEPT ![c.s] = FALSE]
                  /\ executable' = [executable EXCEPT ![c.s] =
                                       serverTemplates[c.t].executable]
                  /\ arguments' = [arguments EXCEPT ![c.s] = c.t]
                  /\ config' = [config EXCEPT ![c.s] = ServerConfig(c)]
                  /\ metrics' = [metrics EXCEPT ![c.s] = "none"]
                  /\ backups' = [backups EXCEPT ![c.s] = <<>>]
                  /\ createRet' = [res |-> "server", t |-> c.t, s |-> c.s,
                                   stage |-> "L249", error |-> NoError,
                                   ran |-> c.ran]
    /\ creates' = CreateEnd(c)
    /\ UNCHANGED <<opsLeft, processVars, files, serverTemplates, issued>>

Next ==
    \/ \E s \in servers : StartServer(s)
    \/ \E c \in InFlight : StartAfterUpdate(c)
    \/ \E c \in InFlight : StartAfterSave(c)
    \/ \E c \in InFlight : StartCatchDone(c)
    \/ \E s \in servers, force \in BOOLEAN : StopServer(s, force)
    \/ \E c \in InFlight : StopNoProcessDone(c)
    \/ \E c \in InFlight : StopSignal(c)
    \/ \E h \in Handles : KillTimerFires(h)
    \/ \E h \in Handles, code \in ExitCodes : ProcessExit(h, code)
    \/ \E h \in Handles : ExitAfterUpdate(h)
    \/ \E h \in Handles : ErrorAfterUpdate(h)
    \/ \E s \in ServerIds : RestartTimerFires(s)

(* the lifecycle together with deleteServer *)
NextDelete ==
    \/ Next
    \/ \E s \in servers, deleteFiles \in BOOLEAN : DeleteServer(s, deleteFiles)
    \/ \E c \in InFlight : DeleteFilesDone(c)
    \/ \E c \in InFlight : DeleteDone(c)

(* createServer alone: until line 246 the new instance is not registered   *)
(* and no other operation can reach it                                     *)
NextCreate ==
    \/ \E t \in RequestedTemplates, cfg \in UserConfigs : CreateServer(t, cfg)
    \/ \E c \in Creating : MkdirDone(c)
    \/ \E c \in Creating : InstallStepDone(c)
    \/ \E c \in Creating : ConfigDone(c)
    \/ \E c \in Creating : SaveDone(c)

(* ------------------------- metrics and backups ------------------------- *)
(* a call of updateServerMetrics or createBackup suspended at its update *)
OtherCall(k, s, pc, origin) ==
    [k |-> k, s |-> s, pc |-> pc, h |-> 0, force |-> FALSE, origin |-> origin,
     fromStopped |-> FALSE]

(* line 510: updateServerMetrics goes on only for a registered id whose    *)
(* handle has a pid (a child that could not be launched has none)          *)
CanSample(s) ==
    /\ s \in servers
    /\ processes[s] # 0 /\ procs[processes[s]].live # "failed"

(* an interval created by startServerMonitoring fires (lines 485-487) and  *)
(* updateServerMetrics runs up to its update, lines 506-529: it returns at *)
(* once unless the id is registered and has a handle with a pid; the       *)
(* helpers it awaits before line 529 return constants                      *)
MetricsTick(s) ==
    /\ activeIntervals[s] > 0
    /\ CanSample(s)
    /\ opsLeft > 0
    /\ opsLeft' = opsLeft - 1
    /\ metrics' = [metrics EXCEPT ![s] = "written"]
    /\ calls' = Suspend(OtherCall("metrics", s, "L529", "timer"))
    /\ UNCHANGED <<serverVars, processes, monitorVars, procs, nextProc, timerVars,
                   dbFailsLeft, ret, saved, files, serverTemplates, executable,
                   arguments, config, creates, createRet, issued, backups,
                   authVars, unhandled>>

(* the intervals left when the rejection of a cycle is not caught: the     *)
(* unhandled rejection ends the manager and with it every interval         *)
IntervalsAfterCycle_Uncaught(o) ==
    IF o = "reject" THEN [s \in ServerIds |-> 0] ELSE activeIntervals

(* lines 512-534: the body of updateServerMetrics is inside try/catch, so  *)
(* a rejected update is logged and every interval goes on                  *)
IntervalsAfterCycle(o) == activeIntervals

(* resumption after the await of line 529: serverMetricsUpdated is         *)
(* emitted, or the rejection is caught and logged (lines 532-534)          *)
MetricsDone(c) ==
    /\ c \in InFlight /\ c.k = "metrics"
    /\ \E o \in DbOutcomes :
          /\ dbFailsLeft' = DbCount(o)
          /\ saved' = DbWrite(o, c.s)
          /\ metrics' = [metrics EXCEPT ![c.s] =
                            IF o = "ok" THEN "updated" ELSE "failed"]
          /\ activeIntervals' = IntervalsAfterCycle(o)
    /\ calls' = Resume(c)
    /\ UNCHANGED <<opsLeft, serverVars, processes, monitoringIntervals, procs,
                   nextProc, timerVars, ret, serverTemplates, files, executable,
                   arguments, config, creates, createRet, issued, backups,
                   authVars, unhandled>>

(* Date.now() at line 594, counted in milliseconds since the first backup  *)
(* of the run: the clock has moved on since the last backup was made, or   *)
(* it still shows the same millisecond                                     *)
BackupsMade ==
    UNION {{backups[s][k] : k \in 1 .. Len(backups[s])} : s \in ServerIds}
LastBackupTime ==
    IF BackupsMade = {} THEN 0
    ELSE CHOOSE n \in {b.id : b \in BackupsMade} :
            \A b \in BackupsMade : b.id <= n
DateNow ==
    {LastBackupTime + 1} \cup (IF BackupsMade = {} THEN {} ELSE {LastBackupTime})

(* lines 593-601: the Backup object; id is `backup_${Date.now()}`, size is *)
(* 0 and path is the empty string                                          *)
Backup(s, now) == [id |-> now, serverId |-> s, size |-> 0, path |-> ""]

(* a createBackup call suspended at line 607, and the object it returns *)
BackupCall(s, b) ==
    [k |-> "backup", s |-> s, pc |-> "L607", h |-> 0, force |-> FALSE,
     origin |-> "api", fromStopped |-> FALSE, backup |-> b]

(* a backup that stops a running instance before it archives *)
StatusForBackup_Stopping(st) == IF st = RUNNING THEN STOPPING ELSE st

(* lines 587-607 read the instance as it is: the status is not assigned    *)
(* and the server is neither stopped nor started                           *)
StatusForBackup(st) == st

(* createBackup, lines 587-607: the backup is pushed onto server.backups   *)
(* and the update is awaited; no file is written                           *)
CreateBackup(s) ==
    /\ opsLeft > 0
    /\ opsLeft' = opsLeft - 1
    /\ status' = [status EXCEPT ![s] = StatusForBackup(@)]
    /\ \E now \in DateNow :
          /\ backups' = [backups EXCEPT ![s] = Append(@, Backup(s, now))]
          /\ calls' = Suspend(BackupCall(s, Backup(s, now)))
    /\ UNCHANGED <<servers, pid, autoRestart, processes, monitorVars, procs,
                   nextProc, timerVars,
                   dbFailsLeft, ret, saved, files, serverTemplates, executable,
                   arguments, config, creates, createRet, issued, metrics,
                   authVars, unhandled>>

(* resumption after the await of line 607: the backup is returned, or the  *)
(* rejection is thrown                                                     *)
BackupDone(c) ==
    /\ c \in InFlight /\ c.k = "backup"
    /\ \E o \in DbOutcomes :
          /\ dbFailsLeft' = DbCount(o)
          /\ saved' = DbWrite(o, c.s)
          /\ ret' = IF o = "ok" THEN "backup" ELSE "throw"
    /\ calls' = Resume(c)
    /\ UNCHANGED <<opsLeft, serverVars, processes, monitorVars, procs, nextProc,
                   timerVars, serverTemplates, createVars, unhandled>>

(* ------------------------- AuthService --------------------------------- *)
(* what the AuthService never writes *)
managedVars == <<serverVars, processes, monitorVars, procs, nextProc, calls,
                 timerVars, ret, unhandled, saved, files, serverTemplates,
                 executable, arguments, config, creates, createRet, issued,
                 metrics, backups>>
managerVars == <<managedVars, opsLeft>>

(* the `user` of a call whose lookup has not returned *)
NoUser == [isActive |-> FALSE, role |-> "none"]

AuthInFlight == BagToSet(authCalls)

(* getUserByUsername and getUserById: the user object built from the row   *)
(* of the users table, a new object on every call                          *)
getUser(u) == users[u]

(* saveUser, INSERT OR REPLACE (lines 1291-1311): the row of the user is   *)
(* replaced by the fields of the object it is given; the active column is  *)
(* taken to carry the flag the AuthService reads and writes as isActive    *)
saveUser(u, user) == users' = [users EXCEPT ![u] = user]

(* lines 154-156 *)
getSession(u) == activeSessions[u]

(* lines 180-184 *)
roleHierarchy(r) ==
    CASE r = "admin" -> 3
      [] r = "moderator" -> 2
      [] r = "user" -> 1

(* lines 173-187 *)
hasPermission(u, requiredRole) ==
    LET session == getSession(u) IN
    IF session = NoSession \/ ~session.isAuthenticated THEN FALSE
    ELSE roleHierarchy(session.role) >= roleHierarchy(requiredRole)

(* a suspended call: k is "authenticate" or "deactivate", u the user it is *)
(* about, pc the line of the await, user the object the lookup returned,   *)
(* valid whether the password given matches                                *)
AuthCall(k, u, pc, user, valid) ==
    [k |-> k, u |-> u, pc |-> pc, user |-> user, valid |-> valid]
AuthMove(c, d) == (authCalls (-) SetToBag({c})) (+) SetToBag({d})
AuthReturns(c, op, res) ==
    /\ authCalls' = authCalls (-) SetToBag({c})
    /\ authRet' = [op |-> op, u |-> c.u, res |-> res]

(* authenticateUser, lines 61-63: the lookup is awaited *)
AuthenticateUser(u, valid) ==
    /\ opsLeft > 0
    /\ opsLeft' = opsLeft - 1
    /\ authCalls' = authCalls (+)
                       SetToBag({AuthCall("authenticate", u, "L63", NoUser, valid)})
    /\ UNCHANGED <<managedVars, dbFailsLeft, users, activeSessions, authRet>>

(* lines 63-69: null for an inactive user (or when the lookup rejects:     *)
(* lines 92-95), otherwise bcrypt.compare is awaited                       *)
AuthLookupDone(c) ==
    /\ c \in AuthInFlight /\ c.k = "authenticate" /\ c.pc = "L63"
    /\ \E o \in DbOutcomes :
          /\ dbFailsLeft' = DbCount(o)
          /\ IF o = "reject" \/ ~getUser(c.u).isActive
             THEN AuthReturns(c, "authenticateUser", "null")
             ELSE /\ authCalls' = AuthMove(c, [c EXCEPT !.pc = "L69",
                                                        !.user = getUser(c.u)])
                  /\ UNCHANGED authRet
    /\ UNCHANGED <<managerVars, users, activeSessions>>

(* lines 69-77: null for a wrong password, otherwise saveUser is awaited *)
AuthCompareDone(c) ==
    /\ c \in AuthInFlight /\ c.k = "authenticate" /\ c.pc = "L69"
    /\ IF c.valid
       THEN authCalls' = AuthMove(c, [c EXCEPT !.pc = "L77"]) /\ UNCHANGED authRet
       ELSE AuthReturns(c, "authenticateUser", "null")
    /\ UNCHANGED <<managerVars, dbFailsLeft, users, activeSessions>>

(* lines 77-90: the user object read at line 63 has been saved; the        *)
(* session is made from it and stored; a rejection gives null              *)
AuthSaveDone(c) ==
    /\ c \in AuthInFlight /\ c.k = "authenticate" /\ c.pc = "L77"
    /\ \E o \in DbOutcomes :
          /\ dbFailsLeft' = DbCount(o)
          /\ IF o = "reject"
             THEN /\ AuthReturns(c, "authenticateUser", "null")
                  /\ UNCHANGED <<users, activeSessions>>
             ELSE /\ saveUser(c.u, c.user)
                  /\ activeSessions' =
                        [activeSessions EXCEPT ![c.u] =
                            [role |-> c.user.role, isAuthenticated |-> TRUE]]
                  /\ AuthReturns(c, "authenticateUser", "session")
    /\ UNCHANGED managerVars

(* logout, lines 165-167 *)
Logout(u) ==
    /\ activeSessions[u] # NoSession
    /\ activeSessions' = [activeSessions EXCEPT ![u] = NoSession]
    /\ authRet' = [op |-> "logout", u |-> u, res |-> "void"]
    /\ UNCHANGED <<managerVars, dbFailsLeft, users, authCalls>>

(* deactivateUser, lines 220-227: false without the admin permission,      *)
(* otherwise the lookup is awaited                                         *)
DeactivateUser(a, target) ==
    /\ opsLeft > 0
    /\ opsLeft' = opsLeft - 1
    /\ IF hasPermission(a, "admin")
       THEN /\ authCalls' = authCalls (+)
                  SetToBag({AuthCall("deactivate", target, "L227", NoUser, TRUE)})
            /\ UNCHANGED authRet
       ELSE /\ authRet' = [op |-> "deactivateUser", u |-> target, res |-> "false"]
            /\ UNCHANGED authCalls
    /\ UNCHANGED <<managedVars, dbFailsLeft, users, activeSessions>>

(* lines 227-235: isActive = false on the object the lookup returned, and  *)
(* saveUser is awaited                                                     *)
DeactLookupDone(c) ==
    /\ c \in AuthInFlight /\ c.k = "deactivate" /\ c.pc = "L227"
    /\ \E o \in DbOutcomes :
          /\ dbFailsLeft' = DbCount(o)
          /\ IF o = "reject"
             THEN AuthReturns(c, "deactivateUser", "false")
             ELSE /\ authCalls' =
                        AuthMove(c, [c EXCEPT !.pc = "L235",
                                              !.user = [getUser(c.u) EXCEPT
                                                           !.isActive = FALSE]])
                  /\ UNCHANGED authRet
    /\ UNCHANGED <<managerVars, users, activeSessions>>

(* lines 235-240: the row is saved, the user is logged out and true is     *)
(* returned; a rejection gives false (lines 242-245)                       *)
DeactSaveDone(c) ==
    /\ c \in AuthInFlight /\ c.k = "deactivate" /\ c.pc = "L235"
    /\ \E o \in DbOutcomes :
          /\ dbFailsLeft' = DbCount(o)
          /\ IF o = "reject"
             THEN /\ AuthReturns(c, "deactivateUser", "false")
                  /\ UNCHANGED <<users, activeSessions>>
             ELSE /\ saveUser(c.u, c.user)
                  /\ activeSessions' = [activeSessions EXCEPT ![c.u] = NoSession]
                  /\ AuthReturns(c, "deactivateUser", "true")
    /\ UNCHANGED managerVars

NextAuth ==
    \/ \E u \in UserIds, valid \in BOOLEAN : AuthenticateUser(u, valid)
    \/ \E c \in AuthInFlight : AuthLookupDone(c)
    \/ \E c \in AuthInFlight : AuthCompareDone(c)
    \/ \E c \in AuthInFlight : AuthSaveDone(c)
    \/ \E u \in UserIds : Logout(u)
    \/ \E a \in UserIds, target \in UserIds : DeactivateUser(a, target)
    \/ \E c \in AuthInFlight : DeactLookupDone(c)
    \/ \E c \in AuthInFlight : DeactSaveDone(c)

(* no call made by a client is suspended: what is in flight was started   *)
(* by a timer                                                              *)
ClientIdle ==
    /\ creates = EmptyBag
    /\ \A c \in InFlight : c.origin = "timer"

(* the operations a client calls, one at a time *)
NextRequest ==
    \/ ClientIdle /\ \E s \in servers : StartServer(s)
    \/ ClientIdle /\ \E s \in servers, force \in BOOLEAN : StopServer(s, force)
    \/ ClientIdle /\ \E s \in servers, deleteFiles \in BOOLEAN :
                        DeleteServer(s, deleteFiles)
    \/ ClientIdle /\ \E t \in RequestedTemplates, cfg \in UserConfigs :
                        CreateServer(t, cfg)
    \/ ClientIdle /\ \E s \in servers : CreateBackup(s)

(* resumptions of suspended calls, timers and process events *)
NextStep ==
    \/ \E c \in InFlight : StartAfterUpdate(c)
    \/ \E c \in InFlight : StartAfterSave(c)
    \/ \E c \in InFlight : StartCatchDone(c)
    \/ \E c \in InFlight : StopNoProcessDone(c)
    \/ \E c \in InFlight : StopSignal(c)
    \/ \E h \in Handles : KillTimerFires(h)
    \/ \E h \in Handles, code \in ExitCodes : ProcessExit(h, code)
    \/ \E h \in Handles : ExitAfterUpdate(h)
    \/ \E h \in Handles : ErrorAfterUpdate(h)
    \/ \E s \in ServerIds : RestartTimerFires(s)
    \/ \E c \in InFlight : DeleteFilesDone(c)
    \/ \E c \in InFlight : DeleteDone(c)
    \/ \E c \in Creating : MkdirDone(c)
    \/ \E c \in Creating : InstallStepDone(c)
    \/ \E c \in Creating : ConfigDone(c)
    \/ \E c \in Creating : SaveDone(c)
    \/ \E s \in ServerIds : MetricsTick(s)
    \/ \E c \in InFlight : MetricsDone(c)
    \/ \E c \in InFlight : BackupDone(c)

(* every operation on instances, the client calling one operation at a    *)
(* time                                                                    *)
NextAll == NextRequest \/ NextStep

(* the lifecycle and the sampling of metrics, the client calling one       *)
(* operation at a time                                                     *)
NextTwo ==
    \/ ClientIdle /\ \E s \in servers : StartServer(s)
    \/ ClientIdle /\ \E s \in servers, force \in BOOLEAN : StopServer(s, force)
    \/ \E c \in InFlight : StartAfterUpdate(c)
    \/ \E c \in InFlight : StartAfterSave(c)
    \/ \E c \in InFlight : StartCatchDone(c)
    \/ \E c \in InFlight : StopNoProcessDone(c)
    \/ \E c \in InFlight : StopSignal(c)
    \/ \E h \in Handles : KillTimerFires(h)
    \/ \E h \in Handles, code \in ExitCodes : ProcessExit(h, code)
    \/ \E h \in Handles : ExitAfterUpdate(h)
    \/ \E h \in Handles : ErrorAfterUpdate(h)
    \/ \E s \in ServerIds : RestartTimerFires(s)
    \/ \E s \in ServerIds : MetricsTick(s)
    \/ \E c \in InFlight : MetricsDone(c)

(* starting instances and sampling their metrics while their processes    *)
(* run or end by themselves: no stopServer, no restart                     *)
NextSample ==
    \/ ClientIdle /\ \E s \in servers : StartServer(s)
    \/ \E c \in InFlight : StartAfterUpdate(c)
    \/ \E c \in InFlight : StartAfterSave(c)
    \/ \E c \in InFlight : StartCatchDone(c)
    \/ \E h \in Handles, code \in ExitCodes : ProcessExit(h, code)
    \/ \E h \in Handles : ExitAfterUpdate(h)
    \/ \E h \in Handles : ErrorAfterUpdate(h)
    \/ \E s \in ServerIds : MetricsTick(s)
    \/ \E c \in InFlight : MetricsDone(c)

(* the same with createBackup *)
NextBackup ==
    \/ NextSample
    \/ ClientIdle /\ \E s \in servers : CreateBackup(s)
    \/ \E c \in InFlight : BackupDone(c)

(* starting instances, the client calling one operation at a time, and    *)
(* shutting the manager down: startServer, the process events, the restart *)
(* timer and cleanup                                                       *)
NextCleanup ==
    \/ ClientIdle /\ \E s \in servers : StartServer(s)
    \/ Cleanup
    \/ \E c \in InFlight : StartAfterUpdate(c)
    \/ \E c \in InFlight : StartAfterSave(c)
    \/ \E c \in InFlight : StartCatchDone(c)
    \/ \E c \in InFlight : StopSignal(c)
    \/ \E h \in Handles, code \in ExitCodes : ProcessExit(h, code)
    \/ \E h \in Handles : ExitAfterUpdate(h)
    \/ \E h \in Handles : ErrorAfterUpdate(h)
    \/ \E s \in ServerIds : RestartTimerFires(s)

Spec == Init /\ [][Next]_vars

(* what the runtime guarantees: a database callback is called, a timer    *)
(* fires, a listener suspended at an await goes on, and a child that was   *)
(* sent SIGKILL ends.  A child that was sent SIGTERM may ignore it, and no *)
(* client has to make a request.                                           *)
Fairness ==
    /\ WF_vars(\E c \in InFlight : StartAfterUpdate(c))
    /\ WF_vars(\E c \in InFlight : StartAfterSave(c))
    /\ WF_vars(\E c \in InFlight : StartCatchDone(c))
    /\ WF_vars(\E c \in InFlight : StopNoProcessDone(c))
    /\ WF_vars(\E c \in InFlight : StopSignal(c))
    /\ \A h \in Handles :
          /\ WF_vars(KillTimerFires(h))
          /\ WF_vars(procs[h].sig = "SIGKILL" /\ ProcessExit(h, "null"))
          /\ WF_vars(ExitAfterUpdate(h))
          /\ WF_vars(ErrorAfterUpdate(h))
    /\ \A s \in ServerIds : WF_vars(RestartTimerFires(s))
SpecLive == Init /\ [][Next]_vars /\ Fairness

(* the same program with room for one more request and a database that     *)
(* never rejects                                                           *)
InitDeep ==
    /\ InitLoaded({"s1"})
    /\ serverTemplates = LoadedTemplates
    /\ Budget(MaxOps + 1, 0)
SpecDeep == InitDeep /\ [][Next]_vars
SpecDelete == InitDeep /\ [][NextDelete]_vars
SpecCreate == Init /\ [][NextCreate]_vars

(* one createServer call with the install steps of one template drawn     *)
(* from StepLists, so that installServer meets every step type and a       *)
(* failing step at every position                                          *)
InitInstall ==
    /\ InitLoaded({"s1"})
    /\ \A s \in servers : status[s] = STOPPED /\ ~autoRestart[s]
    /\ \E steps \in StepLists :
          serverTemplates =
             [LoadedTemplates EXCEPT !["minecraft_vanilla"].installSteps = steps]
    /\ Budget(1, MaxDbFails)
SpecInstall == InitInstall /\ [][NextCreate]_vars

(* every operation on instances, called one at a time, with a database    *)
(* that never rejects and the loaded instance Stopped                      *)
InitAll ==
    /\ InitLoaded({"s1"})
    /\ \A s \in servers : status[s] = STOPPED
    /\ serverTemplates = LoadedTemplates
    /\ Budget(MaxOps, 0)
SpecAll == InitAll /\ [][NextAll]_vars

(* two instances loaded Stopped and a database that never rejects         *)
InitTwo ==
    /\ InitLoaded(ServerIds)
    /\ \A s \in servers : status[s] = STOPPED
    /\ serverTemplates = LoadedTemplates
    /\ Budget(MaxOps, 0)
SpecTwo == InitTwo /\ [][NextTwo]_vars

(* two instances loaded Stopped, without autoRestart, and a database that  *)
(* can reject                                                              *)
InitSample ==
    /\ InitLoaded(ServerIds)
    /\ \A s \in servers : status[s] = STOPPED /\ ~autoRestart[s]
    /\ serverTemplates = LoadedTemplates
    /\ Budget(MaxOps + 1, MaxDbFails)
SpecSample == InitSample /\ [][NextSample]_vars

(* one instance loaded Stopped, without autoRestart, and a database that   *)
(* can reject                                                              *)
InitBackup ==
    /\ InitLoaded({"s1"})
    /\ \A s \in servers : status[s] = STOPPED /\ ~autoRestart[s]
    /\ serverTemplates = LoadedTemplates
    /\ Budget(MaxOps, MaxDbFails)
SpecBackup == InitBackup /\ [][NextBackup]_vars

(* two instances loaded Stopped, a database that can reject, and room for  *)
(* two startServer calls and a shutdown                                    *)
InitCleanup ==
    /\ InitLoaded(ServerIds)
    /\ \A s \in servers : status[s] = STOPPED
    /\ serverTemplates = LoadedTemplates
    /\ Budget(MaxOps + 1, MaxDbFails)
SpecCleanup == InitCleanup /\ [][NextCleanup]_vars

(* the AuthService alone, with a database that can reject *)
InitAuthOnly ==
    /\ InitLoaded({"s1"})
    /\ \A s \in servers : status[s] = STOPPED /\ ~autoRestart[s]
    /\ serverTemplates = LoadedTemplates
    /\ Budget(MaxOps + 1, MaxDbFails)
SpecAuth == InitAuthOnly /\ [][NextAuth]_vars

TypeOK ==
    /\ servers \subseteq ServerIds
    /\ \A s \in servers : status[s] \in ServerStatus
    /\ pid \in [ServerIds -> 0 .. StalePid]
    /\ processes \in [ServerIds -> 0 .. MaxProcs]
    /\ nextProc \in 1 .. MaxProcs + 1
    /\ opsLeft \in Nat /\ dbFailsLeft \in Nat

(* ========================= claims ====================================== *)
LiveProcs(s) == {h \in Handles : procs[h].owner = s /\ procs[h].live = "alive"}

(* a stopServer call has chosen the process and is suspended, or has       *)
(* already signalled it                                                    *)
StopInFlight(h) ==
    \/ \E c \in InFlight : c.k = "stop" /\ c.h = h
    \/ procs[h].sig # "none"
    \/ killTimers[h]

C2_PidIffActiveStatus ==
    \A s \in servers : (pid[s] # 0) <=> status[s] \in {STARTING, RUNNING, STOPPING}

(* C3: a startServer call issued while an earlier startServer call on a    *)
(* Stopped instance is still awaiting its first database update is         *)
(* rejected and suspends nothing, so only the first call spawns.           *)
C3_SecondStartRejected ==
    [][\A s \in servers :
          (/\ StartServer(s)
           /\ \E c \in InFlight : /\ c.k = "start" /\ c.s = s
                                  /\ c.origin = "api" /\ c.fromStopped
                                  /\ c.pc = "L320")
          => (ret' = "false" /\ UNCHANGED <<status, calls, procs>>)]_vars

(* C4: startServer on an instance whose status is Starting, Running or     *)
(* Stopping is rejected and leaves status, pid and handle unchanged.       *)
C4_StartOnlyFromStoppedOrCrashed ==
    [][\A s \in servers :
          (StartServer(s) /\ status[s] \in {STARTING, RUNNING, STOPPING})
          => (ret' = "false" /\ UNCHANGED <<status, pid, processes, procs, calls>>)]_vars

C7_NoAutoRestartWhenDisabled ==
    [][/\ \A h \in Handles, code \in ExitCodes :
             (/\ ProcessExit(h, code)
              /\ ~autoRestart[procs[h].owner]
              /\ code # "0" /\ ~StopInFlight(h))
             => status'[procs[h].owner] = CRASHED
       /\ \A h \in Handles :
             (ExitAfterUpdate(h) /\ ~autoRestart[procs[h].owner])
             => restartTimers' = restartTimers
       /\ \A c \in InFlight :
             (StartAfterUpdate(c) /\ ~autoRestart[c.s] /\ nextProc' # nextProc)
             => c.origin = "api"
       /\ \A s \in servers : ~autoRestart[s] => ~RestartTimerFires(s)]_vars

(* C7 witness: the exit listener of a process that ended abnormally, with  *)
(* no stop requested, has run for an instance with autoRestart = false.    *)
C7_Witness ==
    \E h \in Handles :
        /\ procs[h].live = "exited" /\ procs[h].code # "0"
        /\ ~StopInFlight(h)
        /\ ~autoRestart[procs[h].owner]
        /\ status[procs[h].owner] = CRASHED
        /\ restartTimers[procs[h].owner] = 0

C14_SpawnedStartStaysRunning ==
    [][\A c \in InFlight :
          (/\ c.k = "start" /\ c.pc = "L346" /\ StartAfterSave(c)
           /\ status[c.s] = RUNNING
           /\ processes[c.s] # 0 /\ procs[processes[c.s]].live = "alive")
          => /\ status'[c.s] = RUNNING
             /\ c.origin = "api" => ret' = "true"]_vars

StepsInOrder(t, ran) ==
    /\ Len(ran) <= Len(serverTemplates[t].installSteps)
    /\ \A k \in 1 .. Len(ran) :
          /\ ran[k].index = k - 1
          /\ ran[k].type = serverTemplates[t].installSteps[k].type
          /\ k < Len(ran) => ran[k].result = "ok"

(* what the executed steps that succeeded have written is in the directory *)
EffectsInPlace(dir, t, ran) ==
    \A k \in 1 .. Len(ran) :
        ran[k].result = "ok"
        => StepWrites(serverTemplates[t].installSteps[k], ran[k].action)
              \subseteq dir

(* C16: the install steps run in list order; when a step fails the call    *)
(* ends there: no later step, no configuration file, no row and no         *)
(* registration, and nothing that earlier steps wrote is removed.          *)
C16_InstallAbortsAtFailedStep ==
    [][/\ \A c \in BagToSet(creates') :
             /\ StepsInOrder(c.t, c.ran)
             /\ \A k \in 1 .. Len(c.ran) : c.ran[k].result = "ok"
       /\ \A c \in Creating :
             (InstallStepDone(c) /\ creates' = CreateEnd(c))
             => /\ createRet'.res = "throw" /\ createRet'.stage = "L259"
                /\ StepsInOrder(c.t, createRet'.ran)
                /\ createRet'.ran[Len(createRet'.ran)].result = "fail"
                /\ EffectsInPlace(files'[c.s], c.t, createRet'.ran)
                /\ UNCHANGED <<files, saved, servers>>]_vars

(* C16 witness: the second of three steps has failed, the third has not    *)
(* run, the file written by the first is in the directory, and the         *)
(* instance is neither configured, saved nor registered.                   *)
C16_Witness ==
    /\ createRet.res = "throw" /\ createRet.stage = "L259"
    /\ Len(createRet.ran) = 2
    /\ Len(serverTemplates[createRet.t].installSteps) = 3
    /\ createRet.ran[1].type = "edit"
    /\ "eula.txt" \in files[createRet.s]
    /\ "server.properties" \notin files[createRet.s]
    /\ createRet.s \notin servers \cup saved

(* C17: the error of a createServer call that ends at a failed install     *)
(* step is InstallStepFailed and carries the zero-based index and the type *)
(* of that step.                                                           *)
C17_ErrorNamesFailedStep ==
    (createRet.res = "throw" /\ createRet.stage = "L259")
    => LET n == Len(createRet.ran) IN
       /\ createRet.error.message = "InstallStepFailed"
       /\ createRet.error.index = n - 1
       /\ createRet.error.stepType = createRet.ran[n].type

(* C18: a step whose action fails reports failure, so no createServer call *)
(* goes on, or returns a server, after such a step.                        *)
C18_FailedActionFailsStep ==
    /\ \A c \in Creating :
          \A k \in 1 .. Len(c.ran) : c.ran[k].action = "fail" => c.ran[k].result = "fail"
    /\ \A k \in 1 .. Len(createRet.ran) :
          createRet.ran[k].action = "fail"
          => createRet.ran[k].result = "fail" /\ createRet.res = "throw"

(* C19: createServer with a template id that is not in the catalog throws  *)
(* "Template not found" and changes nothing: no call is suspended, no      *)
(* directory, row or registry entry is made and no step runs.              *)
C19_UnknownTemplateChangesNothing ==
    [][\A t \in RequestedTemplates, cfg \in UserConfigs :
          (CreateServer(t, cfg) /\ t \notin DOMAIN serverTemplates)
          => /\ createRet'.res = "throw"
             /\ createRet'.error.message = "Template not found"
             /\ createRet'.ran = <<>>
             /\ UNCHANGED <<serverVars, processVars, opsLeft, dbFailsLeft, saved,
                            files, serverTemplates, executable, arguments, config,
                            creates, issued, metrics, backups>>]_vars

(* C19 witness: a createServer call for an unknown template has thrown     *)
(* while another call, for a template of the catalog, is being installed.  *)
C19_Witness ==
    /\ createRet.res = "throw" /\ createRet.stage = "L210"
    /\ createRet.t \notin DOMAIN serverTemplates
    /\ \E c \in Creating : c.pc = "L259"

(* C20: the catalog holds what loadServerTemplates put into it: the same   *)
(* templates, each with its default arguments, default configuration and   *)
(* install steps.                                                          *)
C20_CatalogUnchanged == serverTemplates = LoadedTemplates

(* C20 witness: an instance made by createServer with javaArgs in its      *)
(* configuration, whose arguments are its template's defaultArgs array and *)
(* whose executable is java, has been started and has a process.           *)
C20_Witness ==
    \E s \in servers :
        /\ arguments[s] \in DOMAIN serverTemplates
        /\ "javaArgs" \in config[s] /\ executable[s] = "java"
        /\ processes[s] # 0
        /\ serverTemplates = LoadedTemplates

(* C21: a sampling cycle, whether its update resolves or rejects, leaves   *)
(* the status and the pid of every instance as they are, and the end of a  *)
(* cycle of one instance, a failed one included, leaves the interval of    *)
(* every other instance active and its sampling possible as before.        *)
C21_SamplingLeavesRunState ==
    [][/\ \A s \in ServerIds : MetricsTick(s) => UNCHANGED <<status, pid>>
       /\ \A c \in InFlight :
             (c.k = "metrics" /\ MetricsDone(c))
             => /\ UNCHANGED <<status, pid>>
                /\ \A o \in ServerIds \ {c.s} :
                      /\ activeIntervals'[o] = activeIntervals[o]
                      /\ monitoringIntervals'[o] = monitoringIntervals[o]
                      /\ CanSample(o)' = CanSample(o)]_vars

(* C21 witness: the sampling cycle of a Running instance has failed while  *)
(* another instance is Running with an active interval and can be sampled. *)
C21_Witness ==
    \E s \in servers, o \in servers :
        /\ s # o
        /\ metrics[s] = "failed" /\ status[s] = RUNNING /\ pid[s] # 0
        /\ status[o] = RUNNING /\ activeIntervals[o] > 0 /\ CanSample(o)

(* C22: an instance whose status is Running has its pid set and an active  *)
(* monitoring interval whose sampling cycle reaches the update of its      *)
(* metrics.                                                                *)
C22_RunningIsMonitored ==
    \A s \in servers :
        status[s] = RUNNING
        => /\ pid[s] # 0
           /\ monitoringIntervals[s] /\ activeIntervals[s] > 0
           /\ CanSample(s)

(* C23: a createBackup call that returns gives its caller a record whose   *)
(* path is not empty and whose size is greater than 0.                     *)
C23_BackupHasArtifact ==
    [][\A c \in InFlight :
          (c.k = "backup" /\ BackupDone(c) /\ ret' = "backup")
          => (c.backup.size > 0 /\ c.backup.path # "")]_vars

(* C24: createBackup, from its call to its return or throw, leaves the     *)
(* status, the pid, the process handle, the process and the monitoring     *)
(* interval of the instance as they are.                                   *)
C24_BackupLeavesRunState ==
    [][/\ \A s \in servers :
             CreateBackup(s)
             => UNCHANGED <<status, pid, processes, monitorVars, procs, timerVars>>
       /\ \A c \in InFlight :
             (c.k = "backup" /\ BackupDone(c))
             => UNCHANGED <<status, pid, processes, monitorVars, procs, timerVars>>]_vars

(* C24 witness: of the two requests made so far, a startServer call has    *)
(* left the instance Running with a live process and a createBackup call   *)
(* on it has thrown.                                                       *)
C24_Witness ==
    \E s \in servers :
        /\ opsLeft = MaxOps - 2 /\ calls = EmptyBag
        /\ backups[s] # <<>> /\ ret = "throw"
        /\ status[s] = RUNNING /\ LiveProcs(s) # {} /\ monitoringIntervals[s]

(* the places of the backups made so far: instance and index *)
BackupPlaces ==
    UNION {{<<s, k>> : k \in 1 .. Len(backups[s])} : s \in ServerIds}

(* C25: no two backups, of the same or of different instances, have the    *)
(* same id or the same artifact path.                                      *)
C25_BackupsDistinct ==
    \A x, y \in BackupPlaces :
        x # y => /\ backups[x[1]][x[2]].id # backups[y[1]][y[2]].id
                 /\ backups[x[1]][x[2]].path # backups[y[1]][y[2]].path

(* a step of startServer, stopServer, a process listener, a timer or a     *)
(* sampling cycle of instance s                                            *)
StepOf(s) ==
    \/ StartServer(s)
    \/ \E force \in BOOLEAN : StopServer(s, force)
    \/ RestartTimerFires(s)
    \/ MetricsTick(s)
    \/ \E c \in InFlight :
          /\ c.s = s
          /\ \/ StartAfterUpdate(c) \/ StartAfterSave(c) \/ StartCatchDone(c)
             \/ StopNoProcessDone(c) \/ StopSignal(c) \/ MetricsDone(c)
    \/ \E h \in Handles :
          /\ procs[h].owner = s
          /\ \/ KillTimerFires(h) \/ ExitAfterUpdate(h) \/ ErrorAfterUpdate(h)
             \/ \E code \in ExitCodes : ProcessExit(h, code)

(* C26: a step of startServer, stopServer, an exit or error listener, a    *)
(* timer or a sampling cycle of one instance leaves the status, the pid,   *)
(* the process handle, the processes and the monitoring interval of every  *)
(* other instance as they are.                                             *)
C26_OtherInstancesUntouched ==
    [][\A s \in ServerIds :
          StepOf(s)
          => \A o \in ServerIds \ {s} :
                /\ status'[o] = status[o] /\ pid'[o] = pid[o]
                /\ processes'[o] = processes[o]
                /\ monitoringIntervals'[o] = monitoringIntervals[o]
                /\ activeIntervals'[o] = activeIntervals[o]
                /\ \A h \in Handles : procs[h].owner = o => procs'[h] = procs[h]]_vars

(* C26 witness: the process of one instance has exited and its listener    *)
(* has run while another instance is Running, with its process alive and   *)
(* registered and its interval active.                                     *)
C26_Witness ==
    \E s \in servers, o \in servers :
        /\ s # o
        /\ \E h \in Handles : procs[h].owner = s /\ procs[h].live = "exited"
        /\ status[s] \in {STOPPED, CRASHED} /\ ~monitoringIntervals[s]
        /\ status[o] = RUNNING /\ processes[o] \in LiveProcs(o)
        /\ monitoringIntervals[o] /\ activeIntervals[o] = 1

(* C27: no startServer or stopServer call on an id makes its first state   *)
(* change while another startServer or stopServer call on that id is       *)
(* suspended between its first state change and its return.                *)
C27_StartStopSerialized ==
    [][\A s \in servers :
          (\/ StartServer(s) /\ calls' # calls
           \/ \E force \in BOOLEAN : StopServer(s, force)
           \/ RestartTimerFires(s) /\ calls' # calls)
          => ~\E c \in InFlight : c.k \in {"start", "stop"} /\ c.s = s]_vars

StatusAgrees(s) ==
    /\ status[s] = STOPPED => (LiveProcs(s) = {} /\ processes[s] = 0)
    /\ LiveProcs(s) # {} => status[s] \in {STARTING, RUNNING, STOPPING}

CleanupReturns ==
    /\ ret' = "cleaned"
    /\ \/ Cleanup /\ calls' = calls
       \/ \E c \in InFlight :
             c.origin = "cleanup" /\ StopSignal(c) /\ calls' = Resume(c)

(* C31: cleanup releases the monitoring interval of no instance that is    *)
(* Running or Starting (those are stopped first), and when it returns no   *)
(* instance is Running or Starting, no process that was not killed is      *)
(* alive and no monitoring interval is active.                             *)
C31_ShutdownStopsThenReleases ==
    [][/\ Cleanup =>
             \A s \in servers :
                 status[s] \in {RUNNING, STARTING}
                 => activeIntervals'[s] = activeIntervals[s]
       /\ CleanupReturns =>
             \A s \in servers :
                 /\ status'[s] \notin {RUNNING, STARTING}
                 /\ \A h \in LiveProcs(s) : procs'[h].sig = "SIGKILL"
                 /\ activeIntervals'[s] = 0]_vars

Deleted(s) ==
    /\ s \in issued /\ s \notin servers /\ s \notin saved
    /\ \A c \in Creating : c.s # s

(* C33: once deleteServer has completed, no step writes the record of the  *)
(* instance back to the servers table or to the registry, and no process   *)
(* is spawned for it.                                                      *)
C33_DeletedStaysDeleted ==
    [][\A s \in ServerIds :
          Deleted(s)
          => /\ s \notin saved' /\ s \notin servers'
             /\ \A h \in Handles : procs'[h].owner = s => procs[h].owner = s]_vars

HandlesAlive ==
    \A s \in ServerIds :
        processes[s] # 0
        => \/ procs[processes[s]].live = "alive"
           \/ procs[processes[s]].errpc = "L433"

C36_StartableWithoutProcess ==
    [][\A s \in servers :
          (/\ StartServer(s)
           /\ LiveProcs(s) = {} /\ processes[s] = 0 /\ calls = EmptyBag)
          => (ret' # "false" /\ status'[s] = STARTING)]_vars

C38_CreatedIdsAreFresh ==
    [][/\ \A c \in Creating' :
             /\ CopiesIn(c, creates') = 1
             /\ \A d \in Creating' : d.s = c.s => d = c
       /\ \A c \in Creating :
             (SaveDone(c) /\ createRet'.res = "server")
             => (c.s \notin servers /\ c.s \notin saved)]_vars

(* a step in which the createServer call c ends *)
CreateEnds(c) ==
    /\ creates' = CreateEnd(c)
    /\ MkdirDone(c) \/ InstallStepDone(c) \/ ConfigDone(c) \/ SaveDone(c)

(* C39: a createServer call that ends by throwing, in the installation or  *)
(* in the save, leaves the registry as it was; a call that returns its     *)
(* instance has it in the registry and in the persisted records; and the   *)
(* registry changes in no other step of createServer.                      *)
C39_RegisteredIffReturned ==
    [][/\ \A c \in Creating :
             CreateEnds(c)
             => IF createRet'.res = "server"
                THEN /\ createRet'.s = c.s
                     /\ c.s \in servers' /\ c.s \in saved'
                     /\ servers' = servers \cup {c.s}
                ELSE /\ createRet'.res = "throw" /\ createRet'.s = c.s
                     /\ servers' = servers
       /\ servers' # servers => \E c \in Creating : CreateEnds(c)
       /\ servers' \subseteq saved']_vars

(* C39 witness: a createServer call ran its install steps and then threw   *)
(* out of its save; its id is neither registered nor persisted.            *)
C39_Witness ==
    /\ createRet.res = "throw" /\ createRet.stage = "L244"
    /\ createRet.ran # <<>>
    /\ createRet.s \notin servers \cup saved

====
